---- MODULE Spec2Model ----
(***************************************************************************)
(* Model of src/src/axis_measure.rs: TableAxis, the two AxisMeasure         *)
(* implementations, FixedAxisMeasure and StoredAxisMeasure, and the        *)
(* trait's provided method pixel_near_border.                              *)
(*                                                                         *)
(* Pixels (f64 in the source) are integers here: every value the model     *)
(* reaches is a small integer, on which f64 addition, subtraction,         *)
(* multiplication and comparison are exact.  The one division,             *)
(* pixel / full_pixels_per_unit, is followed by floor() and a saturating   *)
(* cast, both modelled in FloorAsUsize.                                    *)
(* VisIdx and LogIdx are 0-based naturals, as in the source; TLA+          *)
(* sequences are 1-based, so Vec element i is seq[i + 1].                  *)
(* Option<T>: None is <<>>, Some(x) is <<x>>.                              *)
(***************************************************************************)
EXTENDS Integers, Sequences, FiniteSets, TLC

\* ---- bounds of the model ------------------------------------------------
MaxLen == 2      \* largest logical length passed to set_axis_properties

Borders == {-1, 0, 1}             \* border argument of set_axis_properties
Lens == 0 .. MaxLen               \* len argument of set_axis_properties
VisIdxs == 0 .. MaxLen            \* visible indices passed in (MaxLen is always out of range)
Lengths == {-1, 0, 2}             \* length argument of set_pixel_length_for_vis
FarPixels == {2}                  \* pixel argument of set_far_pixel_for_vis
Units == {0, 1, 2, 7}             \* pixels_per_unit passed to FixedAxisMeasure::new
Defaults == {2}                   \* default_pixels passed to StoredAxisMeasure::new
RemapLens == 0 .. 2               \* lengths of the Full mappings passed in
QueryPixels == -2 .. 6            \* pixels the read-only queries are asked about

\* ---- Option<T> ----------------------------------------------------------
None == <<>>
Some(x) == <<x>>
IsSome(o) == o /= <<>>
Unwrap(o) == o[1]
UnwrapOr(o, d) == IF IsSome(o) THEN o[1] ELSE d

Max(S) == CHOOSE x \in S : \A y \in S : y <= x
MaxOf(a, b) == IF a >= b THEN a ELSE b

\* ---- Remap (crate::Remap, crate::data::RemapDetails) ---------------------
Pristine == [tag |-> "Pristine", vis_to_log |-> <<>>]
Full(vis_to_log) == [tag |-> "Full", vis_to_log |-> vis_to_log]

\* Remap::get_log_idx: the identity for Pristine, the entry of the mapping
\* at the visible position for Selected(Full(..)), None past its end.
GetLogIdx(r, vis_idx) ==
    IF r.tag = "Pristine" THEN Some(vis_idx)
    ELSE IF vis_idx < Len(r.vis_to_log) THEN Some(r.vis_to_log[vis_idx + 1])
    ELSE None

\* The remaps a caller passes together with logical length n: Pristine, or a
\* Full mapping whose LogIdx are all < n (build_maps indexes log_pix_lengths
\* with them unchecked).  Mappings may filter, reorder and repeat items.
Remaps(n) ==
    {Pristine} \cup
    {Full(s) : s \in UNION {[1 .. k -> 0 .. (n - 1)] : k \in RemapLens}}

\* ---- BTreeMap -----------------------------------------------------------
EmptyMap == [k \in {} |-> 0]
MapInsert(f, k, v) == [x \in (DOMAIN f) \cup {k} |-> IF x = k THEN v ELSE f[x]]
MapGet(f, k) == IF k \in DOMAIN f THEN Some(f[k]) ELSE None

VARIABLES
    ax,                  \* which implementation of AxisMeasure is under use
    pixels_per_unit,     \* FixedAxisMeasure.pixels_per_unit
    len,                 \* FixedAxisMeasure.len
    border,              \* .border of the measure in use
    remap,               \* StoredAxisMeasure.remap
    log_pix_lengths,     \* StoredAxisMeasure.log_pix_lengths
    vis_pix_lengths,     \* StoredAxisMeasure.vis_pix_lengths
    first_pixels,        \* StoredAxisMeasure.first_pixels
    pixels_to_vis,       \* StoredAxisMeasure.pixels_to_vis
    default_pixels,      \* StoredAxisMeasure.default_pixels
    total_pixel_length,  \* StoredAxisMeasure.total_pixel_length
    ret,                 \* what the last mutating call returned (None: nothing)
    axis,                \* the TableAxis value the caller holds
    origin               \* the last cell_origin call: its axis, arguments and Point

vars == <<ax, pixels_per_unit, len, border, remap, log_pix_lengths, vis_pix_lengths,
          first_pixels, pixels_to_vis, default_pixels, total_pixel_length, ret,
          axis, origin>>

\* =========================================================================
\* TableAxis
\* =========================================================================
Rows == "Rows"
Columns == "Columns"
TableAxes == {Rows, Columns}

AxisPixels == -2 .. 3             \* main and cross arguments of cell_origin

CrossAxis(a) == IF a = Rows THEN Columns ELSE Rows

\* point is a druid Point, [x, y].
MainPixelFromPoint(a, point) == IF a = Rows THEN point.y ELSE point.x

\* Mutant of Coords: main comes first on both axes.
CoordsMainFirst(a, main, cross) == <<main, cross>>

Coords(a, main, cross) == IF a = Rows THEN <<cross, main>> ELSE <<main, cross>>

\* (f64, f64).into() a Point: the pair's first component is x, the second y.
CellOrigin(a, main, cross) ==
    LET c == Coords(a, main, cross) IN [x |-> c[1], y |-> c[2]]

\* =========================================================================
\* FixedAxisMeasure
\* =========================================================================
\* The measure as a value: [pixels_per_unit, border, len].
Fixed == [pixels_per_unit |-> pixels_per_unit, border |-> border, len |-> len]

FixedNew(u) == [pixels_per_unit |-> u, border |-> 0, len |-> 0]

FullPixelsPerUnit(f) == f.pixels_per_unit + f.border

FixedSetAxisProperties(f, b, n) == [f EXCEPT !.border = b, !.len = n]

\* Mutant of FixedTotalPixelLength: no border after the last item.
FixedTotalNoTrailingBorder(f) ==
    IF f.len = 0 THEN 0 ELSE FullPixelsPerUnit(f) * f.len - f.border

FixedTotalPixelLength(f) == FullPixelsPerUnit(f) * f.len

\* (pixel / stride).floor() as usize.  The float-to-integer cast saturates:
\* a negative value and NaN (0/0) give 0, +inf gives usize::MAX, written <<>>
\* here because it is below no len.  For stride /= 0 the quotient is floored
\* (\div floors for a positive divisor).
FloorAsUsize(pixel, stride) ==
    IF stride = 0
    THEN IF pixel > 0 THEN None ELSE Some(0)
    ELSE LET q == IF stride > 0 THEN pixel \div stride ELSE (0 - pixel) \div (0 - stride)
         IN  Some(MaxOf(q, 0))

\* Mutant of FixedVisFromPixel: the index is not checked against len.
FixedVisFromPixelUnchecked(f, pixel) == FloorAsUsize(pixel, FullPixelsPerUnit(f))

FixedVisFromPixel(f, pixel) ==
    LET index == FloorAsUsize(pixel, FullPixelsPerUnit(f))
    IN  IF IsSome(index) /\ Unwrap(index) < f.len THEN Some(Unwrap(index)) ELSE None

\* Mutant of FixedVisRangeFromPixels: an unresolved end clamps to the first
\* item, as the start does.
FixedVisRangeEndClampsToFirst(f, p0, p1) ==
    LET start == FixedVisFromPixel(f, p0)
        end == FixedVisFromPixel(f, p1)
    IN  <<UnwrapOr(start, 0), UnwrapOr(end, 0)>>

\* Defined for len > 0 only: with len = 0 the source evaluates len - 1 on usize.
FixedVisRangeFromPixels(f, p0, p1) ==
    LET start == FixedVisFromPixel(f, p0)
        end == FixedVisFromPixel(f, p1)
    IN  <<UnwrapOr(start, 0), UnwrapOr(end, f.len - 1)>>

\* Mutant of FixedFirstPixelFromVis: the stride leaves out the border.
FixedFirstPixelFromVisNoBorder(f, idx) ==
    IF idx < f.len THEN Some(idx * f.pixels_per_unit) ELSE None

FixedFirstPixelFromVis(f, idx) ==
    IF idx < f.len THEN Some(idx * FullPixelsPerUnit(f)) ELSE None

FixedPixelsLengthForVis(f, idx) ==
    IF idx < f.len THEN Some(f.pixels_per_unit) ELSE None

FixedSetFarPixelForVis(f, idx, pixel) == [m |-> f, ret |-> f.pixels_per_unit]

\* Mutant of FixedSetPixelLengthForVis: the requested length is applied to
\* the shared unit extent and returned.
FixedSetPixelLengthApplies(f, idx, length) ==
    [m |-> [f EXCEPT !.pixels_per_unit = length], ret |-> length]

FixedSetPixelLengthForVis(f, idx, length) == [m |-> f, ret |-> f.pixels_per_unit]

FixedCanResize(f, idx) == FALSE

\* =========================================================================
\* StoredAxisMeasure
\* =========================================================================
\* The measure as a value.
Stored ==
    [remap |-> remap, log_pix_lengths |-> log_pix_lengths,
     vis_pix_lengths |-> vis_pix_lengths, first_pixels |-> first_pixels,
     pixels_to_vis |-> pixels_to_vis, default_pixels |-> default_pixels,
     border |-> border, total_pixel_length |-> total_pixel_length]

StoredNew(d) ==
    [remap |-> Pristine, log_pix_lengths |-> <<>>, vis_pix_lengths |-> <<>>,
     first_pixels |-> EmptyMap, pixels_to_vis |-> EmptyMap, default_pixels |-> d,
     border |-> 0, total_pixel_length |-> 0]

\* Mutant of ProjectLengths: the remap is ignored, every logical item is shown.
ProjectLengthsIgnoringRemap(r, log) == log

\* build_maps, first half: vis_pix_lengths from log_pix_lengths through remap.
ProjectLengths(r, log) ==
    IF r.tag = "Full"
    THEN [i \in 1 .. Len(r.vis_to_log) |-> log[r.vis_to_log[i] + 1]]
    ELSE log

\* Mutant of BuildLoop: the cursor advances by the extent without the border.
RECURSIVE BuildLoopNoBorder(_, _, _, _, _, _)
BuildLoopNoBorder(vis, b, idx, cur, fp, ptv) ==
    IF idx >= Len(vis)
    THEN [first_pixels |-> fp, pixels_to_vis |-> ptv, total_pixel_length |-> cur]
    ELSE BuildLoopNoBorder(vis, b, idx + 1, cur + vis[idx + 1],
                           MapInsert(fp, idx, cur), MapInsert(ptv, cur, idx))

\* build_maps, second half: the loop over vis_pix_lengths.iter().enumerate(),
\* from position idx on, with the running cursor cur and the two maps so far.
RECURSIVE BuildLoop(_, _, _, _, _, _)
BuildLoop(vis, b, idx, cur, fp, ptv) ==
    IF idx >= Len(vis)
    THEN [first_pixels |-> fp, pixels_to_vis |-> ptv, total_pixel_length |-> cur]
    ELSE BuildLoop(vis, b, idx + 1, cur + vis[idx + 1] + b,
                   MapInsert(fp, idx, cur), MapInsert(ptv, cur, idx))

\* Mutant of BuildMaps: pixels_to_vis is not cleared before it is refilled.
BuildMapsNoClear(m) ==
    LET vis == ProjectLengths(m.remap, m.log_pix_lengths)
        built == BuildLoop(vis, m.border, 0, 0, EmptyMap, m.pixels_to_vis)
    IN  [m EXCEPT !.vis_pix_lengths = vis,
                  !.first_pixels = built.first_pixels,
                  !.pixels_to_vis = built.pixels_to_vis,
                  !.total_pixel_length = built.total_pixel_length]

BuildMaps(m) ==
    LET vis == ProjectLengths(m.remap, m.log_pix_lengths)
        built == BuildLoop(vis, m.border, 0, 0, EmptyMap, EmptyMap)
    IN  [m EXCEPT !.vis_pix_lengths = vis,
                  !.first_pixels = built.first_pixels,
                  !.pixels_to_vis = built.pixels_to_vis,
                  !.total_pixel_length = built.total_pixel_length]

\* Mutant of ResizeLog: new logical items get extent 0, not the default.
ResizeLogZeroFill(log, d, n) ==
    IF Len(log) > n THEN SubSeq(log, 1, n)
    ELSE IF Len(log) < n THEN log \o [i \in 1 .. (n - Len(log)) |-> 0]
    ELSE log

\* set_axis_properties, the truncate / extend of log_pix_lengths.
ResizeLog(log, d, n) ==
    IF Len(log) > n THEN SubSeq(log, 1, n)
    ELSE IF Len(log) < n THEN log \o [i \in 1 .. (n - Len(log)) |-> d]
    ELSE log

StoredSetAxisProperties(m, b, n, r) ==
    BuildMaps([m EXCEPT !.border = b, !.remap = r,
                        !.log_pix_lengths = ResizeLog(m.log_pix_lengths, m.default_pixels, n)])

StoredTotalPixelLength(m) == m.total_pixel_length

\* Mutant of StoredVisFromPixel: the range excludes the pixel itself,
\* pixels_to_vis.range(..pixel).
StoredVisFromPixelBelow(m, pixel) ==
    LET below == {k \in DOMAIN m.pixels_to_vis : k < pixel}
    IN  IF below = {} THEN None ELSE Some(m.pixels_to_vis[Max(below)])

\* pixels_to_vis.range(..=pixel).next_back()
StoredVisFromPixel(m, pixel) ==
    LET below == {k \in DOMAIN m.pixels_to_vis : k <= pixel}
    IN  IF below = {} THEN None ELSE Some(m.pixels_to_vis[Max(below)])

\* Defined for a non-empty vis_pix_lengths only (len() - 1 on usize).
StoredVisRangeFromPixels(m, p0, p1) ==
    <<UnwrapOr(StoredVisFromPixel(m, p0), 0),
      UnwrapOr(StoredVisFromPixel(m, p1), Len(m.vis_pix_lengths) - 1)>>

StoredFirstPixelFromVis(m, idx) == MapGet(m.first_pixels, idx)

StoredPixelsLengthForVis(m, idx) ==
    IF idx < Len(m.vis_pix_lengths) THEN Some(m.vis_pix_lengths[idx + 1]) ELSE None

\* Mutant of StoredSetPixelLengthForVis: the extent is written at the visible
\* index instead of the logical index the remap gives.
StoredSetPixelLengthAtVisIdx(m, vis_idx, length) ==
    LET log_idx == GetLogIdx(m.remap, vis_idx)
    IN  IF IsSome(log_idx) /\ Unwrap(log_idx) < Len(m.log_pix_lengths)
           /\ vis_idx < Len(m.log_pix_lengths)
        THEN [m |-> BuildMaps([m EXCEPT !.log_pix_lengths[vis_idx + 1] = length]),
              ret |-> length]
        ELSE [m |-> m, ret |-> 0]

\* Mutant of StoredSetPixelLengthForVis: the requested length is returned on
\* the path that resolves nothing, too.
StoredSetPixelLengthAlwaysReturnsLength(m, vis_idx, length) ==
    LET log_idx == GetLogIdx(m.remap, vis_idx)
    IN  IF IsSome(log_idx) /\ Unwrap(log_idx) < Len(m.log_pix_lengths)
        THEN [m |-> BuildMaps([m EXCEPT !.log_pix_lengths[Unwrap(log_idx) + 1] = length]),
              ret |-> length]
        ELSE [m |-> m, ret |-> length]

\* Mutant of StoredSetPixelLengthForVis: build_maps is not run after the
\* logical extent is written.
StoredSetPixelLengthNoRebuild(m, vis_idx, length) ==
    LET log_idx == GetLogIdx(m.remap, vis_idx)
    IN  IF IsSome(log_idx) /\ Unwrap(log_idx) < Len(m.log_pix_lengths)
        THEN [m |-> [m EXCEPT !.log_pix_lengths[Unwrap(log_idx) + 1] = length],
              ret |-> length]
        ELSE [m |-> m, ret |-> 0]

StoredSetPixelLengthForVis(m, vis_idx, length) ==
    LET log_idx == GetLogIdx(m.remap, vis_idx)
    IN  IF IsSome(log_idx) /\ Unwrap(log_idx) < Len(m.log_pix_lengths)
        THEN [m |-> BuildMaps([m EXCEPT !.log_pix_lengths[Unwrap(log_idx) + 1] = length]),
              ret |-> length]
        ELSE [m |-> m, ret |-> 0]

\* Mutant of StoredSetFarPixelForVis: the extent is not clamped at 0.
StoredSetFarPixelNoClamp(m, idx, pixel) ==
    LET length == pixel - UnwrapOr(MapGet(m.first_pixels, idx), 0)
    IN  StoredSetPixelLengthForVis(m, idx, length)

StoredSetFarPixelForVis(m, idx, pixel) ==
    LET length == MaxOf(0, pixel - UnwrapOr(MapGet(m.first_pixels, idx), 0))
    IN  StoredSetPixelLengthForVis(m, idx, length)

StoredCanResize(m, idx) == TRUE

\* =========================================================================
\* AxisMeasure::pixel_near_border, the trait's provided method
\* =========================================================================
MOUSE_MOVE_EPSILON == 3

Abs(x) == IF x < 0 THEN 0 - x ELSE x

\* Mutant of NearBorder: the trailing edge is tested before the leading edge.
NearBorderTrailingFirst(idx, first_idx, first_next, total, b, pixel) ==
    LET idx_border_middle_x2 == 2 * UnwrapOr(first_idx, 0) - b
        next_border_middle_x2 == 2 * UnwrapOr(first_next, total) - b
    IN  IF Abs(2 * pixel - next_border_middle_x2) < 2 * MOUSE_MOVE_EPSILON
        THEN Some(idx + 1)
        ELSE IF Abs(2 * pixel - idx_border_middle_x2) < 2 * MOUSE_MOVE_EPSILON
        THEN Some(idx)
        ELSE None

\* The body of pixel_near_border after vis_from_pixel(pixel)? gave idx;
\* first_idx and first_next are first_pixel_from_vis(idx) and
\* first_pixel_from_vis(idx + 1).  Both sides of each comparison are doubled,
\* so that border / 2 stays an integer: |x| < 3 iff |2x| < 6.
NearBorder(idx, first_idx, first_next, total, b, pixel) ==
    LET idx_border_middle_x2 == 2 * UnwrapOr(first_idx, 0) - b
        next_border_middle_x2 == 2 * UnwrapOr(first_next, total) - b
    IN  IF Abs(2 * pixel - idx_border_middle_x2) < 2 * MOUSE_MOVE_EPSILON
        THEN Some(idx)
        ELSE IF Abs(2 * pixel - next_border_middle_x2) < 2 * MOUSE_MOVE_EPSILON
        THEN Some(idx + 1)
        ELSE None

FixedPixelNearBorder(f, pixel) ==
    LET found == FixedVisFromPixel(f, pixel)
    IN  IF ~IsSome(found) THEN None
        ELSE NearBorder(Unwrap(found),
                        FixedFirstPixelFromVis(f, Unwrap(found)),
                        FixedFirstPixelFromVis(f, Unwrap(found) + 1),
                        FixedTotalPixelLength(f), f.border, pixel)

StoredPixelNearBorder(m, pixel) ==
    LET found == StoredVisFromPixel(m, pixel)
    IN  IF ~IsSome(found) THEN None
        ELSE NearBorder(Unwrap(found),
                        StoredFirstPixelFromVis(m, Unwrap(found)),
                        StoredFirstPixelFromVis(m, Unwrap(found) + 1),
                        StoredTotalPixelLength(m), m.border, pixel)

\* =========================================================================
\* The state machine: a measure is constructed, then any sequence of the
\* mutating calls of the AxisMeasure trait is made on it.
\* =========================================================================
IsFixed == ax = "FixedAxisMeasure"
IsStored == ax = "StoredAxisMeasure"

SetStored(m) ==
    /\ remap' = m.remap
    /\ log_pix_lengths' = m.log_pix_lengths
    /\ vis_pix_lengths' = m.vis_pix_lengths
    /\ first_pixels' = m.first_pixels
    /\ pixels_to_vis' = m.pixels_to_vis
    /\ default_pixels' = m.default_pixels
    /\ border' = m.border
    /\ total_pixel_length' = m.total_pixel_length
    /\ UNCHANGED <<ax, pixels_per_unit, len, axis, origin>>

SetFixed(f) ==
    /\ pixels_per_unit' = f.pixels_per_unit
    /\ border' = f.border
    /\ len' = f.len
    /\ UNCHANGED <<ax, remap, log_pix_lengths, vis_pix_lengths, first_pixels,
                   pixels_to_vis, default_pixels, total_pixel_length, axis, origin>>

Init ==
    /\ \/ /\ ax = "FixedAxisMeasure"
          /\ \E u \in Units :
                /\ pixels_per_unit = FixedNew(u).pixels_per_unit
                /\ border = FixedNew(u).border
                /\ len = FixedNew(u).len
          /\ remap = Pristine
          /\ log_pix_lengths = <<>>
          /\ vis_pix_lengths = <<>>
          /\ first_pixels = EmptyMap
          /\ pixels_to_vis = EmptyMap
          /\ default_pixels = 0
          /\ total_pixel_length = 0
       \/ /\ ax = "StoredAxisMeasure"
          /\ \E d \in Defaults :
                /\ remap = StoredNew(d).remap
                /\ log_pix_lengths = StoredNew(d).log_pix_lengths
                /\ vis_pix_lengths = StoredNew(d).vis_pix_lengths
                /\ first_pixels = StoredNew(d).first_pixels
                /\ pixels_to_vis = StoredNew(d).pixels_to_vis
                /\ default_pixels = StoredNew(d).default_pixels
                /\ border = StoredNew(d).border
                /\ total_pixel_length = StoredNew(d).total_pixel_length
          /\ pixels_per_unit = 0
          /\ len = 0
    /\ ret = None
    /\ axis = Rows
    /\ origin = None

FixedSetAxisPropertiesCall ==
    /\ IsFixed
    /\ \E b \in Borders, n \in Lens :
        /\ SetFixed(FixedSetAxisProperties(Fixed, b, n))
        /\ ret' = None

FixedSetFarPixelForVisCall ==
    /\ IsFixed
    /\ \E idx \in VisIdxs, pixel \in FarPixels :
        LET r == FixedSetFarPixelForVis(Fixed, idx, pixel)
        IN  /\ SetFixed(r.m)
            /\ ret' = Some(r.ret)

FixedSetPixelLengthForVisCall ==
    /\ IsFixed
    /\ \E idx \in VisIdxs, length \in Lengths :
        LET r == FixedSetPixelLengthForVis(Fixed, idx, length)
        IN  /\ SetFixed(r.m)
            /\ ret' = Some(r.ret)

StoredSetAxisPropertiesCall ==
    /\ IsStored
    /\ \E b \in Borders, n \in Lens :
        \E r \in Remaps(n) :
            /\ SetStored(StoredSetAxisProperties(Stored, b, n, r))
            /\ ret' = None

StoredSetPixelLengthForVisCall ==
    /\ IsStored
    /\ \E idx \in VisIdxs, length \in Lengths :
        LET r == StoredSetPixelLengthForVis(Stored, idx, length)
        IN  /\ SetStored(r.m)
            /\ ret' = Some(r.ret)

StoredSetFarPixelForVisCall ==
    /\ IsStored
    /\ \E idx \in VisIdxs, pixel \in FarPixels :
        LET r == StoredSetFarPixelForVis(Stored, idx, pixel)
        IN  /\ SetStored(r.m)
            /\ ret' = Some(r.ret)

Next ==
    \/ FixedSetAxisPropertiesCall
    \/ FixedSetFarPixelForVisCall
    \/ FixedSetPixelLengthForVisCall
    \/ StoredSetAxisPropertiesCall
    \/ StoredSetPixelLengthForVisCall
    \/ StoredSetFarPixelForVisCall

Spec == Init /\ [][Next]_vars

\* ---- StoredAxisMeasure on its own ------------------------------------------
StoredInit == Init /\ IsStored

StoredNext ==
    \/ StoredSetAxisPropertiesCall
    \/ StoredSetPixelLengthForVisCall
    \/ StoredSetFarPixelForVisCall

StoredSpec == StoredInit /\ [][StoredNext]_vars

\* ---- TableAxis on its own: no measure is involved -------------------------
AxisInit ==
    /\ ax = "none"
    /\ pixels_per_unit = 0
    /\ len = 0
    /\ border = 0
    /\ remap = Pristine
    /\ log_pix_lengths = <<>>
    /\ vis_pix_lengths = <<>>
    /\ first_pixels = EmptyMap
    /\ pixels_to_vis = EmptyMap
    /\ default_pixels = 0
    /\ total_pixel_length = 0
    /\ ret = None
    /\ axis \in TableAxes
    /\ origin = None

measure_vars ==
    <<ax, pixels_per_unit, len, border, remap, log_pix_lengths, vis_pix_lengths,
      first_pixels, pixels_to_vis, default_pixels, total_pixel_length, ret>>

CrossAxisCall ==
    /\ axis' = CrossAxis(axis)
    /\ UNCHANGED <<origin, measure_vars>>

CellOriginCall ==
    /\ \E main \in AxisPixels, cross \in AxisPixels :
          origin' = Some([axis |-> axis, main |-> main, cross |-> cross,
                          point |-> CellOrigin(axis, main, cross)])
    /\ UNCHANGED <<axis, measure_vars>>

AxisNext ==
    \/ CrossAxisCall
    \/ CellOriginCall

AxisSpec == AxisInit /\ [][AxisNext]_vars

\* =========================================================================
\* Properties
\* =========================================================================
\* The number of visible items the remap implies.
VisibleCount(m) ==
    IF m.remap.tag = "Full" THEN Len(m.remap.vis_to_log) ELSE Len(m.log_pix_lengths)

\* The logical item behind visible index i (i < VisibleCount).
LogOf(m, i) == IF m.remap.tag = "Full" THEN m.remap.vis_to_log[i + 1] ELSE i

\* vis_idx resolves through the remap to a logical item inside log_pix_lengths.
Resolvable(m, vis_idx) ==
    /\ IsSome(GetLogIdx(m.remap, vis_idx))
    /\ Unwrap(GetLogIdx(m.remap, vis_idx)) < Len(m.log_pix_lengths)

\* sum of (extent_j + border) over the first n visible items
RECURSIVE SpanSum(_, _, _)
SpanSum(vis, b, n) == IF n = 0 THEN 0 ELSE SpanSum(vis, b, n - 1) + vis[n] + b

\* C1: in every reachable state of a StoredAxisMeasure, vis_pix_lengths and
\* first_pixels have exactly as many entries as the remap implies (the logical
\* length for Pristine, the mapping length for Selected(Full(mapping))), and
\* the extent of every visible index i is log_pix_lengths[mapping[i]]
\* (log_pix_lengths[i] for Pristine).
C1_RemapProjection ==
    IsStored =>
        /\ Len(vis_pix_lengths) = VisibleCount(Stored)
        /\ DOMAIN first_pixels = 0 .. (VisibleCount(Stored) - 1)
        /\ Cardinality(DOMAIN first_pixels) = VisibleCount(Stored)
        /\ \A i \in 0 .. (VisibleCount(Stored) - 1) :
              StoredPixelsLengthForVis(Stored, i)
                  = Some(log_pix_lengths[LogOf(Stored, i) + 1])

\* C1 witness: a Full mapping shorter than the logical length that shows the
\* second logical item, whose extent was resized away from the first one's.
C1_Witness ==
    /\ IsStored
    /\ remap.tag = "Full"
    /\ Len(remap.vis_to_log) = 1
    /\ Len(log_pix_lengths) = 2
    /\ remap.vis_to_log[1] = 1
    /\ log_pix_lengths[1] /= log_pix_lengths[2]
    /\ vis_pix_lengths = <<log_pix_lengths[2]>>

\* C2 as stated: pixels_to_vis holds exactly one entry first_pixels[i] -> i for
\* every visible index i and nothing else, so the lookup of an item's start
\* offset gives back that item.
C2_Original ==
    IsStored =>
        /\ DOMAIN pixels_to_vis = {first_pixels[i] : i \in DOMAIN first_pixels}
        /\ Cardinality(DOMAIN pixels_to_vis) = Cardinality(DOMAIN first_pixels)
        /\ \A i \in DOMAIN first_pixels :
              /\ pixels_to_vis[first_pixels[i]] = i
              /\ StoredVisFromPixel(Stored, Unwrap(StoredFirstPixelFromVis(Stored, i)))
                     = Some(i)

\* the greatest visible index that starts at the same pixel as i
LastAtStartOf(m, i) ==
    Max({j \in DOMAIN m.first_pixels : m.first_pixels[j] = m.first_pixels[i]})

\* C2 amended: pixels_to_vis holds exactly one entry per distinct start offset
\* and nothing else; the entry names the greatest visible index starting
\* there.  The lookup of the start offset of i therefore gives that index,
\* which is i whenever no greater visible index shares i's start offset.
C2_MapsConsistent ==
    IsStored =>
        /\ DOMAIN pixels_to_vis = {first_pixels[i] : i \in DOMAIN first_pixels}
        /\ \A i \in DOMAIN first_pixels :
              /\ pixels_to_vis[first_pixels[i]] = LastAtStartOf(Stored, i)
              /\ StoredVisFromPixel(Stored, Unwrap(StoredFirstPixelFromVis(Stored, i)))
                     = Some(LastAtStartOf(Stored, i))
              /\ (\A j \in DOMAIN first_pixels : j > i => first_pixels[j] /= first_pixels[i])
                     => StoredVisFromPixel(Stored, Unwrap(StoredFirstPixelFromVis(Stored, i)))
                            = Some(i)

\* C2 witness: a resize has just returned; two visible items with distinct
\* start offsets, each found again from its start offset.
C2_Witness ==
    /\ IsStored
    /\ IsSome(ret)
    /\ Len(vis_pix_lengths) = 2
    /\ first_pixels[1] /= first_pixels[0]
    /\ StoredVisFromPixel(Stored, first_pixels[0]) = Some(0)
    /\ StoredVisFromPixel(Stored, first_pixels[1]) = Some(1)

\* C3 as stated: for both measures vis_from_pixel is none for a negative
\* pixel, for a pixel at or beyond total_pixel_length() and on a measure with
\* no visible items; it is Some only for 0 <= pixel < total_pixel_length().
C3_OutOfRangeIsNone ==
    \A p \in QueryPixels :
        /\ IsFixed =>
              (IsSome(FixedVisFromPixel(Fixed, p))
                  => (0 <= p /\ p < FixedTotalPixelLength(Fixed) /\ len > 0))
        /\ IsStored =>
              (IsSome(StoredVisFromPixel(Stored, p))
                  => (0 <= p /\ p < StoredTotalPixelLength(Stored)
                      /\ Len(vis_pix_lengths) > 0))

\* C4: FixedAxisMeasure: total_pixel_length() = n * (u + b), which is the sum
\* of (extent + border) over its n items.  StoredAxisMeasure, in every
\* reachable state: first_pixel_from_vis(i) is the sum of (extent_j + border)
\* over the visible j < i and total_pixel_length() the sum over all visible
\* items, with the current border and the current extents of the logical
\* items behind the visible ones.
C4_TotalsAndOffsets ==
    /\ IsFixed =>
          /\ FixedTotalPixelLength(Fixed) = len * (pixels_per_unit + border)
          /\ FixedTotalPixelLength(Fixed)
                 = SpanSum([i \in 1 .. len |-> Unwrap(FixedPixelsLengthForVis(Fixed, i - 1))],
                           border, len)
    /\ IsStored =>
          LET cur == [i \in 1 .. VisibleCount(Stored)
                          |-> log_pix_lengths[LogOf(Stored, i - 1) + 1]]
          IN  /\ \A i \in 0 .. (VisibleCount(Stored) - 1) :
                    StoredFirstPixelFromVis(Stored, i) = Some(SpanSum(cur, border, i))
              /\ StoredTotalPixelLength(Stored)
                     = SpanSum(cur, border, VisibleCount(Stored))

\* C4 witness: a stored measure with a border whose second item was resized,
\* so that the offsets are no multiples of one stride.
C4_Witness ==
    /\ IsStored
    /\ IsSome(ret)
    /\ border = 1
    /\ Len(vis_pix_lengths) = 2
    /\ vis_pix_lengths[1] /= vis_pix_lengths[2]
    /\ first_pixels[1] = vis_pix_lengths[1] + 1
    /\ total_pixel_length = vis_pix_lengths[1] + vis_pix_lengths[2] + 2

\* C5 as stated: FixedAxisMeasure with border b, unit extent u and length n:
\* for i in [0, n) first_pixel_from_vis(i) = i * (u + b) and
\* vis_from_pixel(first_pixel_from_vis(i)) = Some(i); for i >= n
\* first_pixel_from_vis(i) is none.
C5_Original ==
    IsFixed =>
        \A i \in 0 .. (MaxLen + 1) :
            IF i < len
            THEN /\ FixedFirstPixelFromVis(Fixed, i) = Some(i * (pixels_per_unit + border))
                 /\ FixedVisFromPixel(Fixed, Unwrap(FixedFirstPixelFromVis(Fixed, i))) = Some(i)
            ELSE FixedFirstPixelFromVis(Fixed, i) = None

\* C5 amended: as stated, the round trip
\* vis_from_pixel(first_pixel_from_vis(i)) = Some(i) being claimed only when
\* u + b /= 0; with u + b = 0 every item starts at pixel 0 and the lookup of
\* pixel 0 answers Some(0).
C5_FixedRoundTrip ==
    IsFixed =>
        \A i \in 0 .. (MaxLen + 1) :
            IF i < len
            THEN /\ FixedFirstPixelFromVis(Fixed, i) = Some(i * (pixels_per_unit + border))
                 /\ (pixels_per_unit + border /= 0
                        => FixedVisFromPixel(Fixed, Unwrap(FixedFirstPixelFromVis(Fixed, i)))
                               = Some(i))
                 /\ (pixels_per_unit + border = 0
                        => FixedVisFromPixel(Fixed, Unwrap(FixedFirstPixelFromVis(Fixed, i)))
                               = Some(0))
            ELSE FixedFirstPixelFromVis(Fixed, i) = None

\* C5 witness: a fixed measure of two items with a border and a positive
\* stride, whose second item is found again from its start offset.
C5_Witness ==
    /\ IsFixed
    /\ ret = None
    /\ len = 2
    /\ border = 1
    /\ pixels_per_unit = 2
    /\ FixedFirstPixelFromVis(Fixed, 1) = Some(3)
    /\ FixedVisFromPixel(Fixed, 3) = Some(1)

\* C6: set_pixel_length_for_vis(v, length) with v resolving through the
\* current remap to a logical item l inside log_pix_lengths returns length;
\* afterwards pixels_length_for_vis(v) = Some(length), the stored extent of l
\* is length, and the stored extent of every other logical item, the remap,
\* the border and the logical length are unchanged.
C6_ResizeLandsOnLogicalItem ==
    IsStored =>
        \A v \in VisIdxs, length \in Lengths :
            Resolvable(Stored, v) =>
                LET r == StoredSetPixelLengthForVis(Stored, v, length)
                    l == Unwrap(GetLogIdx(remap, v))
                IN  /\ r.ret = length
                    /\ StoredPixelsLengthForVis(r.m, v) = Some(length)
                    /\ r.m.log_pix_lengths[l + 1] = length
                    /\ Len(r.m.log_pix_lengths) = Len(log_pix_lengths)
                    /\ \A k \in 1 .. Len(log_pix_lengths) :
                          k /= l + 1 => r.m.log_pix_lengths[k] = log_pix_lengths[k]
                    /\ r.m.remap = remap
                    /\ r.m.border = border
                    /\ r.m.default_pixels = default_pixels

\* C6 witness: visible item 0 shows logical item 1; the call resized it to
\* -1 and logical item 0 still has the default extent.
C6_Witness ==
    /\ IsStored
    /\ ret = Some(-1)
    /\ remap.tag = "Full"
    /\ Len(remap.vis_to_log) >= 1
    /\ remap.vis_to_log[1] = 1
    /\ log_pix_lengths = <<default_pixels, -1>>
    /\ StoredPixelsLengthForVis(Stored, 0) = Some(-1)

\* C7: when the visible index does not resolve through the current remap to
\* a logical item inside log_pix_lengths, set_pixel_length_for_vis and
\* set_far_pixel_for_vis both return 0 and leave every field of the measure
\* unchanged.
C7_UnresolvableResizeIsNoOp ==
    IsStored =>
        \A v \in VisIdxs :
            ~Resolvable(Stored, v) =>
                /\ \A length \in Lengths :
                      StoredSetPixelLengthForVis(Stored, v, length) = [m |-> Stored, ret |-> 0]
                /\ \A pixel \in FarPixels :
                      StoredSetFarPixelForVis(Stored, v, pixel) = [m |-> Stored, ret |-> 0]

\* C7 witness: a resize call on a measure with items returned 0 although no
\* logical item has extent 0: the call resolved nothing, and a Full mapping
\* of one item out of two is in place.
C7_Witness ==
    /\ IsStored
    /\ ret = Some(0)
    /\ Len(log_pix_lengths) = 2
    /\ \A k \in 1 .. 2 : log_pix_lengths[k] /= 0
    /\ remap.tag = "Full"
    /\ Len(remap.vis_to_log) = 1

\* what C8 says of set_far_pixel_for_vis(v, pixel) in state m, beyond the
\* extent applied: the start offset of v stays, v ends at pixel when pixel is
\* not before the start, and a second identical call changes nothing.
FarPixelKeepsStart(m, v, pixel) ==
    LET first == m.first_pixels[v]
        r == StoredSetFarPixelForVis(m, v, pixel)
        again == StoredSetFarPixelForVis(r.m, v, pixel)
    IN  /\ StoredFirstPixelFromVis(r.m, v) = Some(first)
        /\ pixel >= first
              => Unwrap(StoredFirstPixelFromVis(r.m, v))
                     + Unwrap(StoredPixelsLengthForVis(r.m, v)) = pixel
        /\ again.ret = r.ret
        /\ again.m = r.m

\* the extent set_far_pixel_for_vis(v, pixel) applies and returns
FarPixelAppliesExtent(m, v, pixel) ==
    LET first == m.first_pixels[v]
        r == StoredSetFarPixelForVis(m, v, pixel)
    IN  /\ r.ret = MaxOf(0, pixel - first)
        /\ StoredPixelsLengthForVis(r.m, v) = Some(r.ret)

\* no visible index before v shows the logical item that v shows
NoEarlierAlias(m, v) == \A j \in 0 .. (v - 1) : LogOf(m, j) /= LogOf(m, v)

\* C8 as stated: set_far_pixel_for_vis(v, pixel) on a resolvable v applies and
\* returns max(0, pixel - first_pixel_from_vis(v)) as measured before the
\* call, leaves the start offset of v unchanged, so that v ends at pixel
\* whenever pixel >= the start offset, and is idempotent.
C8_Original ==
    IsStored =>
        \A v \in VisIdxs, pixel \in FarPixels :
            Resolvable(Stored, v) =>
                /\ FarPixelAppliesExtent(Stored, v, pixel)
                /\ FarPixelKeepsStart(Stored, v, pixel)

\* C8 amended: the extent applied and returned is as stated for every
\* resolvable v; the unchanged start offset, the end at pixel and the
\* idempotence hold when no visible index before v shows the same logical
\* item as v.
C8_FarPixel ==
    IsStored =>
        \A v \in VisIdxs, pixel \in FarPixels :
            Resolvable(Stored, v) =>
                /\ FarPixelAppliesExtent(Stored, v, pixel)
                /\ NoEarlierAlias(Stored, v) => FarPixelKeepsStart(Stored, v, pixel)

\* C8 witness: set_far_pixel_for_vis has just given the second of two
\* distinct items the extent 1 (an extent set_pixel_length_for_vis is never
\* asked for): it starts at pixel 1 and ends at the requested pixel 2.
C8_Witness ==
    /\ IsStored
    /\ ret = Some(1)
    /\ Len(vis_pix_lengths) = 2
    /\ NoEarlierAlias(Stored, 1)
    /\ first_pixels[1] > 0
    /\ ret = Some(vis_pix_lengths[2])
    /\ vis_pix_lengths[2] > 0
    /\ first_pixels[1] + vis_pix_lengths[2] = 2

\* C9: set_axis_properties(b, n, r) leaves log_pix_lengths with exactly n
\* entries; the extents of the logical items below min(old length, n) are
\* unchanged, whatever b and r, and every new logical item has the default
\* extent.  Hence after a shrink to a length <= k and a regrow past k, item
\* k has the default extent again, also when it had been resized.
C9_GrowShrink ==
    IsStored =>
        /\ \A b \in Borders, n \in Lens :
              \A r \in Remaps(n) :
                  LET m2 == StoredSetAxisProperties(Stored, b, n, r)
                      old == Len(log_pix_lengths)
                  IN  /\ Len(m2.log_pix_lengths) = n
                      /\ \A k \in 1 .. n :
                            m2.log_pix_lengths[k]
                                = (IF k <= old THEN log_pix_lengths[k] ELSE default_pixels)
        /\ \A n \in Lens, n2 \in Lens :
              LET m2 == StoredSetAxisProperties(Stored, border, n, Pristine)
                  m3 == StoredSetAxisProperties(m2, border, n2, Pristine)
              IN  \A k \in (n + 1) .. n2 : m3.log_pix_lengths[k] = default_pixels

\* C9 witness: set_axis_properties has just returned on a measure whose first
\* logical item keeps a resized extent while the second has the default.
C9_Witness ==
    /\ IsStored
    /\ ret = None
    /\ Len(log_pix_lengths) = 2
    /\ log_pix_lengths[1] = -1
    /\ log_pix_lengths[2] = default_pixels

\* the pixel span [first, first + extent + border) has a point in [p0, p1]
Overlaps(first, extent, b, p0, p1) ==
    /\ first < first + extent + b
    /\ first <= p1
    /\ p0 < first + extent + b

\* the inclusive range rg contains every item of a fixed measure whose span
\* overlaps [p0, p1], and its endpoints are the items at p0 and p1, or the
\* first and the last item where vis_from_pixel finds none
FixedRangeCovers(f, p0, p1) ==
    LET rg == FixedVisRangeFromPixels(f, p0, p1)
    IN  /\ \A i \in 0 .. (f.len - 1) :
              Overlaps(Unwrap(FixedFirstPixelFromVis(f, i)),
                       Unwrap(FixedPixelsLengthForVis(f, i)), f.border, p0, p1)
                  => (rg[1] <= i /\ i <= rg[2])
        /\ rg[1] = (IF IsSome(FixedVisFromPixel(f, p0))
                      THEN Unwrap(FixedVisFromPixel(f, p0)) ELSE 0)
        /\ rg[2] = (IF IsSome(FixedVisFromPixel(f, p1))
                      THEN Unwrap(FixedVisFromPixel(f, p1)) ELSE f.len - 1)

\* the same for a stored measure
StoredRangeCovers(m, p0, p1) ==
    LET rg == StoredVisRangeFromPixels(m, p0, p1)
        count == Len(m.vis_pix_lengths)
    IN  /\ \A i \in 0 .. (count - 1) :
              Overlaps(Unwrap(StoredFirstPixelFromVis(m, i)),
                       Unwrap(StoredPixelsLengthForVis(m, i)), m.border, p0, p1)
                  => (rg[1] <= i /\ i <= rg[2])
        /\ rg[1] = (IF IsSome(StoredVisFromPixel(m, p0))
                      THEN Unwrap(StoredVisFromPixel(m, p0)) ELSE 0)
        /\ rg[2] = (IF IsSome(StoredVisFromPixel(m, p1))
                      THEN Unwrap(StoredVisFromPixel(m, p1)) ELSE count - 1)

NonNegativeExtents(m) ==
    \A i \in 1 .. Len(m.vis_pix_lengths) : m.vis_pix_lengths[i] >= 0

NonNegativeStrides(m) ==
    \A i \in 1 .. Len(m.vis_pix_lengths) : m.vis_pix_lengths[i] + m.border >= 0

\* the configuration of test_equal_sized: u = 99, b = 1, n = 4
FixedExample == FixedSetAxisProperties(FixedNew(99), 1, 4)
StoredExample == StoredSetAxisProperties(StoredNew(99), 1, 4, Pristine)

RangeExamples ==
    /\ FixedVisRangeFromPixels(FixedExample, 105, 295) = <<1, 2>>
    /\ FixedVisRangeFromPixels(FixedExample, 100, 300) = <<1, 3>>
    /\ StoredVisRangeFromPixels(StoredExample, 105, 295) = <<1, 2>>
    /\ StoredVisRangeFromPixels(StoredExample, 100, 300) = <<1, 3>>

C11_FixedResizeIsNoOp ==
    /\ IsFixed =>
          /\ IsSome(ret) => ret = Some(pixels_per_unit)
          /\ \A idx \in VisIdxs :
                /\ ~FixedCanResize(Fixed, idx)
                /\ \A pixel \in FarPixels :
                      FixedSetFarPixelForVis(Fixed, idx, pixel)
                          = [m |-> Fixed, ret |-> pixels_per_unit]
                /\ \A length \in Lengths :
                      LET r == FixedSetPixelLengthForVis(Fixed, idx, length)
                      IN  /\ r = [m |-> Fixed, ret |-> pixels_per_unit]
                          /\ FixedTotalPixelLength(r.m) = FixedTotalPixelLength(Fixed)
                          /\ \A i \in VisIdxs :
                                /\ FixedFirstPixelFromVis(r.m, i) = FixedFirstPixelFromVis(Fixed, i)
                                /\ FixedPixelsLengthForVis(r.m, i) = FixedPixelsLengthForVis(Fixed, i)
                          /\ \A p \in QueryPixels :
                                FixedVisFromPixel(r.m, p) = FixedVisFromPixel(Fixed, p)
    /\ IsStored => \A idx \in VisIdxs : StoredCanResize(Stored, idx)

\* C11 witness: a resize call has just returned on a fixed measure of two
\* items with unit extent 1 and a border; it returned the unit extent, which
\* none of the requested values is.
C11_Witness ==
    /\ IsFixed
    /\ len = 2
    /\ border = 1
    /\ pixels_per_unit = 1
    /\ ret = Some(1)

\* The stored measure m and the fixed measure f answer alike: the same total,
\* the same start offset and extent at every index, and the same lookup and
\* range for the pixels within [0, total).
AnswersAlike(m, f) ==
    LET total == FixedTotalPixelLength(f)
        Inside == {p \in QueryPixels : 0 <= p /\ p < total}
    IN  /\ StoredTotalPixelLength(m) = total
        /\ \A i \in VisIdxs :
              /\ StoredFirstPixelFromVis(m, i) = FixedFirstPixelFromVis(f, i)
              /\ StoredPixelsLengthForVis(m, i) = FixedPixelsLengthForVis(f, i)
        /\ \A p0 \in Inside :
              /\ StoredVisFromPixel(m, p0) = FixedVisFromPixel(f, p0)
              /\ \A p1 \in Inside :
                    StoredVisRangeFromPixels(m, p0, p1) = FixedVisRangeFromPixels(f, p0, p1)

\* m holds a Pristine remap and every logical extent is the default.
NeverResized(m) ==
    /\ m.remap = Pristine
    /\ \A k \in 1 .. Len(m.log_pix_lengths) : m.log_pix_lengths[k] = m.default_pixels

\* C12: a StoredAxisMeasure created with default extent u, configured by
\* set_axis_properties(b, n, Pristine) and never resized answers as
\* FixedAxisMeasure(u) configured with the same (b, n): equal
\* total_pixel_length, first_pixel_from_vis and pixels_length_for_vis at every
\* index, and equal vis_from_pixel and vis_range_from_pixels for the pixels
\* within [0, total_pixel_length()).
C12_PristineStoredIsFixed ==
    (IsStored /\ NeverResized(Stored)) =>
        LET n == Len(log_pix_lengths)
        IN  /\ AnswersAlike(Stored,
                            FixedSetAxisProperties(FixedNew(default_pixels), border, n))
            /\ \A u \in Units :
                  AnswersAlike(StoredSetAxisProperties(StoredNew(u), border, n, Pristine),
                               FixedSetAxisProperties(FixedNew(u), border, n))

\* C12 witness: a stored measure just configured with two default items, a
\* border and a Pristine remap; pixel 3 is the first pixel of the second item.
C12_Witness ==
    /\ IsStored
    /\ ret = None
    /\ NeverResized(Stored)
    /\ Len(log_pix_lengths) = 2
    /\ border = 1
    /\ StoredVisFromPixel(Stored, 3) = Some(1)
    /\ StoredVisRangeFromPixels(Stored, 2, 5) = <<0, 1>>

\* C13: the TableAxis helpers are total and consistent: cross_axis is an
\* involution without a fixed point, and coords(main, cross) puts main in the
\* y slot for Rows and in the x slot for Columns, so main_pixel_from_point of
\* cell_origin(main, cross) is main on the axis and cross on its cross axis.
C13_AxisHelpers ==
    /\ CrossAxis(axis) \in TableAxes
    /\ CrossAxis(axis) /= axis
    /\ CrossAxis(CrossAxis(axis)) = axis
    /\ IsSome(origin) =>
          LET o == Unwrap(origin)
          IN  /\ o.axis = Rows => o.point.y = o.main
              /\ o.axis = Columns => o.point.x = o.main
              /\ MainPixelFromPoint(o.axis, o.point) = o.main
              /\ MainPixelFromPoint(CrossAxis(o.axis), o.point) = o.cross

\* C13 witness: cell_origin(1, 2) was built on Rows, with main 1 in the y
\* slot, and the caller has since moved to the cross axis.
C13_Witness ==
    /\ origin = Some([axis |-> Rows, main |-> 1, cross |-> 2, point |-> [x |-> 2, y |-> 1]])
    /\ axis = Columns

\* p lies in the right-open span of an item: first <= p < first + extent + b
InSpan(first, extent, b, p) == first <= p /\ p < first + extent + b

PositiveStrides(m) ==
    \A i \in 1 .. Len(m.vis_pix_lengths) : m.vis_pix_lengths[i] + m.border > 0

\* on the fixed measure f, found is the one item whose span holds p
FixedOwns(f, found, p) ==
    /\ IsSome(found)
    /\ Unwrap(found) < f.len
    /\ \A i \in 0 .. (f.len - 1) :
          InSpan(Unwrap(FixedFirstPixelFromVis(f, i)),
                 Unwrap(FixedPixelsLengthForVis(f, i)), f.border, p)
              <=> i = Unwrap(found)

\* on the stored measure m, found is the one item whose span holds p, and its
\* start is the greatest registered start offset <= p
StoredOwns(m, found, p) ==
    /\ IsSome(found)
    /\ Unwrap(found) < VisibleCount(m)
    /\ \A i \in 0 .. (VisibleCount(m) - 1) :
          InSpan(Unwrap(StoredFirstPixelFromVis(m, i)),
                 Unwrap(StoredPixelsLengthForVis(m, i)), m.border, p)
              <=> i = Unwrap(found)
    /\ Unwrap(StoredFirstPixelFromVis(m, Unwrap(found)))
          = Max({k \in DOMAIN m.pixels_to_vis : k <= p})

BoundaryExamples ==
    /\ <<FixedVisFromPixel(FixedExample, 199), FixedVisFromPixel(FixedExample, 200),
         FixedVisFromPixel(FixedExample, 201)>> = <<Some(1), Some(2), Some(2)>>
    /\ <<StoredVisFromPixel(StoredExample, 199), StoredVisFromPixel(StoredExample, 200),
         StoredVisFromPixel(StoredExample, 201)>> = <<Some(1), Some(2), Some(2)>>

\* C14: for both measures, when every visible item has extent + border > 0,
\* vis_from_pixel(p) for 0 <= p < total_pixel_length() is the unique i with
\* first_pixel(i) <= p < first_pixel(i) + extent_i + border, so the pixel at
\* an item's start offset belongs to that item (u = 99, b = 1: pixels 199,
\* 200, 201 give 1, 2, 2); on the stored measure it is the item with the
\* greatest registered start offset <= p.
C14_RightOpenLookup ==
    /\ (IsFixed /\ FullPixelsPerUnit(Fixed) > 0) =>
          \A p \in QueryPixels :
              (0 <= p /\ p < FixedTotalPixelLength(Fixed)) =>
                  FixedOwns(Fixed, FixedVisFromPixel(Fixed, p), p)
    /\ (IsStored /\ PositiveStrides(Stored)) =>
          \A p \in QueryPixels :
              (0 <= p /\ p < StoredTotalPixelLength(Stored)) =>
                  StoredOwns(Stored, StoredVisFromPixel(Stored, p), p)
    /\ BoundaryExamples

\* C14 witness: a stored measure showing, through a reordering remap, an item
\* of extent 1 and then one of extent 2, with a border; pixel 2 is the start
\* of the second item and is found there.
C14_Witness ==
    /\ IsStored
    /\ remap.tag = "Full"
    /\ border = 1
    /\ vis_pix_lengths = <<1, 2>>
    /\ StoredVisFromPixel(Stored, 1) = Some(0)
    /\ StoredVisFromPixel(Stored, 2) = Some(1)

\* twice the distance from pixel to the middle of the border that ends at start
EdgeDistanceX2(pixel, start, b) == Abs(2 * pixel - (2 * start - b))

\* What pixel_near_border is to return, given what vis_from_pixel found, the
\* start of the found item and the start of its successor (None: it is the
\* last item, whose trailing edge is at total).
NearBorderExpected(result, found, first_idx, first_next, total, b, pixel) ==
    IF ~IsSome(found) THEN result = None
    ELSE LET idx == Unwrap(found)
             next_start == IF IsSome(first_next) THEN Unwrap(first_next) ELSE total
             leading == EdgeDistanceX2(pixel, Unwrap(first_idx), b) < 2 * 3
             trailing == EdgeDistanceX2(pixel, next_start, b) < 2 * 3
         IN  /\ IsSome(first_idx)
             /\ leading => result = Some(idx)
             /\ (~leading /\ trailing) => result = Some(idx + 1)
             /\ (~leading /\ ~trailing) => result = None

\* u = 99, b = 1, n = 4: 101 is near the leading edge of item 1, 98 near the
\* trailing edge of item 0, 150 near no edge, 398 near the trailing edge of
\* the last item, 450 is at no item of the fixed measure
NearBorderExamples ==
    /\ FixedPixelNearBorder(FixedExample, 101) = Some(1)
    /\ FixedPixelNearBorder(FixedExample, 98) = Some(1)
    /\ FixedPixelNearBorder(FixedExample, 150) = None
    /\ FixedPixelNearBorder(FixedExample, 398) = Some(4)
    /\ FixedPixelNearBorder(FixedExample, 450) = None
    /\ StoredPixelNearBorder(StoredExample, 101) = Some(1)
    /\ StoredPixelNearBorder(StoredExample, 98) = Some(1)
    /\ StoredPixelNearBorder(StoredExample, 150) = None
    /\ StoredPixelNearBorder(StoredExample, -1) = None

\* C15: pixel_near_border(pixel), with idx = vis_from_pixel(pixel), returns
\* none when no item is at the pixel; otherwise Some(idx) when
\* |pixel - (first_pixel_from_vis(idx) - border/2)| < 3, else Some(idx + 1)
\* when |pixel - (next_start - border/2)| < 3, where next_start is
\* first_pixel_from_vis(idx + 1) or total_pixel_length() for the last item,
\* else none.  The leading edge is tested first: a pixel in both zones gives
\* idx, never idx + 1.
C15_PixelNearBorder ==
    /\ IsFixed =>
          \A p \in QueryPixels :
              LET found == FixedVisFromPixel(Fixed, p)
              IN  NearBorderExpected(FixedPixelNearBorder(Fixed, p), found,
                      FixedFirstPixelFromVis(Fixed, UnwrapOr(found, 0)),
                      FixedFirstPixelFromVis(Fixed, UnwrapOr(found, 0) + 1),
                      FixedTotalPixelLength(Fixed), border, p)
    /\ IsStored =>
          \A p \in QueryPixels :
              LET found == StoredVisFromPixel(Stored, p)
              IN  NearBorderExpected(StoredPixelNearBorder(Stored, p), found,
                      StoredFirstPixelFromVis(Stored, UnwrapOr(found, 0)),
                      StoredFirstPixelFromVis(Stored, UnwrapOr(found, 0) + 1),
                      StoredTotalPixelLength(Stored), border, p)
    /\ NearBorderExamples

\* C15 witness: a fixed measure of two items of extent 7 without border.
\* Pixel 2 is near the leading edge of item 0, pixel 3 near no edge and
\* pixel 5 near the trailing edge of item 0.
C15_Witness ==
    /\ IsFixed
    /\ pixels_per_unit = 7
    /\ border = 0
    /\ len = 2
    /\ FixedPixelNearBorder(Fixed, 2) = Some(0)
    /\ FixedPixelNearBorder(Fixed, 3) = None
    /\ FixedPixelNearBorder(Fixed, 5) = Some(1)

\* distinct visible indices show distinct logical items
InjectiveRemap(m) ==
    \A i, j \in 0 .. (VisibleCount(m) - 1) : LogOf(m, i) = LogOf(m, j) => i = j

\* r is the outcome of a resize of visible index v of m: the items up to v
\* keep their start, every other item keeps its extent, and the items after
\* v and the total move by the returned extent minus the extent v had.
ShiftsOnlyLater(m, r, v) ==
    LET delta == r.ret - Unwrap(StoredPixelsLengthForVis(m, v))
    IN  /\ VisibleCount(r.m) = VisibleCount(m)
        /\ StoredPixelsLengthForVis(r.m, v) = Some(r.ret)
        /\ \A j \in 0 .. (VisibleCount(m) - 1) :
              /\ j /= v => StoredPixelsLengthForVis(r.m, j) = StoredPixelsLengthForVis(m, j)
              /\ j <= v => StoredFirstPixelFromVis(r.m, j) = StoredFirstPixelFromVis(m, j)
              /\ j > v => Unwrap(StoredFirstPixelFromVis(r.m, j))
                             = Unwrap(StoredFirstPixelFromVis(m, j)) + delta
        /\ StoredTotalPixelLength(r.m) = StoredTotalPixelLength(m) + delta

\* C16: on a StoredAxisMeasure whose remap maps distinct visible indices to
\* distinct logical indices, a successful set_pixel_length_for_vis(v, length)
\* or set_far_pixel_for_vis(v, pixel) leaves first_pixel_from_vis(j)
\* unchanged for every j <= v and pixels_length_for_vis(j) unchanged for every
\* j /= v, shifts first_pixel_from_vis(j) for every j > v by exactly the new
\* extent minus the old one, and changes total_pixel_length() by as much.
C16_ResizeShiftsOnlyLater ==
    (IsStored /\ InjectiveRemap(Stored)) =>
        \A v \in VisIdxs :
            Resolvable(Stored, v) =>
                /\ \A length \in Lengths :
                      ShiftsOnlyLater(Stored, StoredSetPixelLengthForVis(Stored, v, length), v)
                /\ \A pixel \in FarPixels :
                      ShiftsOnlyLater(Stored, StoredSetFarPixelForVis(Stored, v, pixel), v)

\* C16 witness: two items of extent 2 shown in reverse order with a border;
\* shrinking visible item 0 to 0 moves item 1 from 3 to 1 and the total from
\* 6 to 4.
C16_Witness ==
    /\ IsStored
    /\ remap = Full(<<1, 0>>)
    /\ border = 1
    /\ vis_pix_lengths = <<2, 2>>
    /\ LET r == StoredSetPixelLengthForVis(Stored, 0, 0)
       IN  /\ r.ret = 0
           /\ r.m.log_pix_lengths = <<2, 0>>
           /\ StoredFirstPixelFromVis(Stored, 1) = Some(3)
           /\ StoredFirstPixelFromVis(r.m, 1) = Some(1)
           /\ StoredTotalPixelLength(r.m) = 4

\* first_pixel_from_vis does not decrease along the visible indices of m
StartsNonDecreasing(m) ==
    \A i, j \in 0 .. (VisibleCount(m) - 1) :
        i <= j => Unwrap(StoredFirstPixelFromVis(m, i)) <= Unwrap(StoredFirstPixelFromVis(m, j))

\* C17: in every state of a StoredAxisMeasure reachable by any sequence of
\* set_axis_properties, set_pixel_length_for_vis (with any requested length)
\* and set_far_pixel_for_vis calls that leaves at least one visible item, and
\* for every p0 <= p1, vis_range_from_pixels(p0, p1) returns (s, e) with
\* s <= e and both s and e smaller than the visible count; equivalently,
\* first_pixel_from_vis is non-decreasing in the visible index.
C17_WellFormedRanges ==
    (IsStored /\ VisibleCount(Stored) > 0) =>
        /\ \A p0, p1 \in QueryPixels :
              p0 <= p1 =>
                  LET rg == StoredVisRangeFromPixels(Stored, p0, p1)
                  IN  /\ rg[1] <= rg[2]
                      /\ rg[1] < VisibleCount(Stored)
                      /\ rg[2] < VisibleCount(Stored)
        /\ StartsNonDecreasing(Stored)

\* C18 as stated: for both measures, in any reachable non-empty state and for
\* any pixel, an index returned by pixel_near_border is smaller than the
\* visible count, with first_pixel_from_vis and pixels_length_for_vis present.
C18_Original ==
    /\ (IsFixed /\ len > 0) =>
          \A p \in QueryPixels :
              LET r == FixedPixelNearBorder(Fixed, p)
              IN  IsSome(r) =>
                      /\ Unwrap(r) < len
                      /\ IsSome(FixedFirstPixelFromVis(Fixed, Unwrap(r)))
                      /\ IsSome(FixedPixelsLengthForVis(Fixed, Unwrap(r)))
    /\ (IsStored /\ VisibleCount(Stored) > 0) =>
          \A p \in QueryPixels :
              LET r == StoredPixelNearBorder(Stored, p)
              IN  IsSome(r) =>
                      /\ Unwrap(r) < VisibleCount(Stored)
                      /\ IsSome(StoredFirstPixelFromVis(Stored, Unwrap(r)))
                      /\ IsSome(StoredPixelsLengthForVis(Stored, Unwrap(r)))

\* r, what pixel_near_border returned at pixel p, is at most count; it is
\* count exactly when the item found at p is the last one and p is near its
\* trailing edge (total - b/2) but not near its leading edge.
AtMostCount(r, found, first_found, count, total, b, p) ==
    IsSome(r) =>
        /\ Unwrap(r) <= count
        /\ Unwrap(r) = count <=>
              /\ Unwrap(found) = count - 1
              /\ ~(EdgeDistanceX2(p, Unwrap(first_found), b) < 2 * 3)
              /\ EdgeDistanceX2(p, total, b) < 2 * 3

\* C18, amended: for both measures, in any reachable non-empty state and for
\* any pixel, an index i returned by pixel_near_border is at most the visible
\* count.  It is the visible count, where first_pixel_from_vis and
\* pixels_length_for_vis have nothing, exactly when vis_from_pixel found the
\* last item and the pixel is within 3 of total_pixel_length() - border/2
\* but not within 3 of the last item's leading edge; any other i is smaller
\* than the visible count and has both.
C18_IndexAtMostCount ==
    /\ (IsFixed /\ len > 0) =>
          \A p \in QueryPixels :
              LET r == FixedPixelNearBorder(Fixed, p)
                  found == FixedVisFromPixel(Fixed, p)
              IN  /\ AtMostCount(r, found, FixedFirstPixelFromVis(Fixed, UnwrapOr(found, 0)),
                                 len, FixedTotalPixelLength(Fixed), border, p)
                  /\ IsSome(r) =>
                        /\ IsSome(FixedFirstPixelFromVis(Fixed, Unwrap(r))) <=> Unwrap(r) < len
                        /\ IsSome(FixedPixelsLengthForVis(Fixed, Unwrap(r))) <=> Unwrap(r) < len
    /\ (IsStored /\ VisibleCount(Stored) > 0) =>
          \A p \in QueryPixels :
              LET r == StoredPixelNearBorder(Stored, p)
                  found == StoredVisFromPixel(Stored, p)
                  count == VisibleCount(Stored)
              IN  /\ AtMostCount(r, found, StoredFirstPixelFromVis(Stored, UnwrapOr(found, 0)),
                                 count, StoredTotalPixelLength(Stored), border, p)
                  /\ IsSome(r) =>
                        /\ IsSome(StoredFirstPixelFromVis(Stored, Unwrap(r))) <=> Unwrap(r) < count
                        /\ IsSome(StoredPixelsLengthForVis(Stored, Unwrap(r))) <=> Unwrap(r) < count

\* C18 witness: a fixed measure of one item of extent 7 without border; pixel
\* 5 is near the trailing edge of that item only, and pixel_near_border
\* returns index 1, the visible count.
C18_Witness ==
    /\ IsFixed
    /\ pixels_per_unit = 7
    /\ border = 0
    /\ len = 1
    /\ FixedPixelNearBorder(Fixed, 5) = Some(1)
    /\ FixedFirstPixelFromVis(Fixed, 1) = None

====
